---------------------------- MODULE Spec2Model ----------------------------
(***************************************************************************)
(* ULive2DCubismAvatarComponent (src/cubism/Live2DCubismAvatarComponent)   *)
(* as a state machine.  Each component instance owns three transient       *)
(* object references; the operations are BeginPlay, TickComponent,         *)
(* LoadLive2DModel, SetParameterValue and GetParameterValue.               *)
(*                                                                         *)
(* float values are written in tenths (0.5f is 5, 30.0f is 300).           *)
(***************************************************************************)
EXTENDS Integers, Sequences, FiniteSets, TLC

\* ------------------------------------------------------------------ bounds
\* NewObject<UObject>() allocations followed in one run
MaxObjects == 2

\* ------------------------------------------------------- program constants
\* nullptr
NULL == 0
\* return 0.5f  (in tenths)
PlaceholderValue == 5
\* return 0.0f  (in tenths)
NoModelValue == 0

\* ------------------------------------------------------------------ inputs
\* two component instances, so that two runs can be stepped side by side
Components == {"A", "B"}

\* FName arguments of SetParameterValue / GetParameterValue
ParameterNames == {"angleX", "missingParam"}

\* float arguments of SetParameterValue (tenths): -45, 10, 45
ParameterValues == {-450, 100, 450}

\* DeltaTime arguments of TickComponent (tenths of a millisecond)
DeltaTimes == {166, 333}

\* Contents of model files.  The source fixes no binary layout; a file is
\* described by what it carries: the magic header, the parameter
\* definitions, the deformer nodes (the parameter each reads and the
\* upstream nodes it takes as inputs) and the drawables (the node each
\* takes as input).
AngleX == [name |-> "angleX", min |-> -300, max |-> 300, default |-> 0]

EmptyData ==
    [magic |-> FALSE, parameters |-> <<>>, deformers |-> <<>>, drawables |-> <<>>]

GoodData ==
    [magic |-> TRUE, parameters |-> <<AngleX>>,
     deformers |-> << [parameter |-> "angleX", inputs |-> {}],
                      [parameter |-> "angleX", inputs |-> {1}] >>,
     drawables |-> <<2>>]

BadMagicData == [GoodData EXCEPT !.magic = FALSE]

DanglingData ==
    [GoodData EXCEPT !.deformers[2].parameter = "missingParam",
                     !.drawables = <<3>>]

CyclicData == [GoodData EXCEPT !.deformers[1].inputs = {2}]

\* The files LoadLive2DModel can be pointed at: FPaths::FileExists and
\* FFileHelper::LoadFileToArray decide on exists / readable.
FileSystem ==
    [p \in {"missing.moc3", "locked.moc3", "good.moc3", "badmagic.moc3",
            "dangling.moc3", "cyclic.moc3"} |->
        CASE p = "missing.moc3"  -> [exists |-> FALSE, readable |-> FALSE, data |-> EmptyData]
          [] p = "locked.moc3"   -> [exists |-> TRUE,  readable |-> FALSE, data |-> EmptyData]
          [] p = "good.moc3"     -> [exists |-> TRUE,  readable |-> TRUE,  data |-> GoodData]
          [] p = "badmagic.moc3" -> [exists |-> TRUE,  readable |-> TRUE,  data |-> BadMagicData]
          [] p = "dangling.moc3" -> [exists |-> TRUE,  readable |-> TRUE,  data |-> DanglingData]
          [] p = "cyclic.moc3"   -> [exists |-> TRUE,  readable |-> TRUE,  data |-> CyclicData]]

Paths == DOMAIN FileSystem

\* ------------------------------------------------------------------- state
VARIABLES
    Live2DModel,      \* [Components -> object], UObject* Live2DModel
    RenderTarget,     \* [Components -> object], UTexture2D* RenderTarget
    DynamicMaterial,  \* [Components -> object], UMaterialInstanceDynamic*
    createdFrom,      \* [Components -> data], the bytes the model was created from
    nextObject,       \* the next object NewObject returns
    pc,               \* [Components -> position of a background LoadLive2DModel]
    loadPath,         \* [Components -> ModelPath of the load in flight]
    ModelData,        \* [Components -> TArray<uint8> ModelData of the load in flight]
    lastCall          \* the call that returned last, with its result (or the
                      \* statement a background load passed last)

vars == <<Live2DModel, RenderTarget, DynamicMaterial, createdFrom, nextObject,
          pc, loadPath, ModelData, lastCall>>

\* what a call returned: a float, nothing (void), or an error
FloatResult(v) == [kind |-> "value", value |-> v]
VoidResult == [kind |-> "void", value |-> 0]

Call(op, c, arg, value, ret) ==
    [op |-> op, c |-> c, arg |-> arg, value |-> value, ret |-> ret]

NoCall == Call("none", "A", "", 0, VoidResult)

\* the members of one component
Members(c) == <<Live2DModel[c], RenderTarget[c], DynamicMaterial[c]>>

\* UPROPERTY members of a UObject start zeroed; the constructor sets none
Init ==
    /\ Live2DModel = [c \in Components |-> NULL]
    /\ RenderTarget = [c \in Components |-> NULL]
    /\ DynamicMaterial = [c \in Components |-> NULL]
    /\ createdFrom = [c \in Components |-> EmptyData]
    /\ nextObject = 1
    /\ pc = [c \in Components |-> "idle"]
    /\ loadPath = [c \in Components |-> ""]
    /\ ModelData = [c \in Components |-> EmptyData]
    /\ lastCall = NoCall

\* a call returns
Returned(call) == lastCall' = call

\* a background load passes a statement without returning
Passed(c, statement, path) == lastCall' = Call(statement, c, path, 0, VoidResult)

\* ------------------------------------------------------------- operations
\* BeginPlay: logs only
BeginPlay(c) ==
    /\ Returned(Call("BeginPlay", c, "", 0, VoidResult))
    /\ UNCHANGED <<Live2DModel, RenderTarget, DynamicMaterial, createdFrom,
                   nextObject, pc, loadPath, ModelData>>

\* a tick that evaluates and renders without looking at Live2DModel
TickWithoutStateCheck(c, DeltaTime) ==
    /\ Returned(Call("TickComponent", c, "", DeltaTime, VoidResult))
    /\ RenderTarget' = [RenderTarget EXCEPT ![c] = 1]
    /\ UNCHANGED <<Live2DModel, DynamicMaterial, createdFrom,
                   nextObject, pc, loadPath, ModelData>>

\* a tick whose result depends on the frame time, not only on the model
TickTimeDependent(c, DeltaTime) ==
    /\ Returned(Call("TickComponent", c, "", DeltaTime, VoidResult))
    /\ RenderTarget' = [RenderTarget EXCEPT ![c] =
                           IF Live2DModel[c] # NULL THEN DeltaTime ELSE @]
    /\ UNCHANGED <<Live2DModel, DynamicMaterial, createdFrom,
                   nextObject, pc, loadPath, ModelData>>

\* TickComponent: Super::TickComponent and a commented-out log
TickComponent(c, DeltaTime) ==
    /\ Returned(Call("TickComponent", c, "", DeltaTime, VoidResult))
    /\ UNCHANGED <<Live2DModel, RenderTarget, DynamicMaterial, createdFrom,
                   nextObject, pc, loadPath, ModelData>>

\* a load that drops the model it holds when the file cannot be loaded
LoadClearsOnFailure(c, ModelPath) ==
    /\ pc[c] = "idle"
    /\ Returned(Call("LoadLive2DModel", c, ModelPath, 0, VoidResult))
    /\ IF ~FileSystem[ModelPath].exists \/ ~FileSystem[ModelPath].readable
         THEN /\ Live2DModel' = [Live2DModel EXCEPT ![c] = NULL]
              /\ createdFrom' = [createdFrom EXCEPT ![c] = EmptyData]
              /\ UNCHANGED nextObject
         ELSE /\ nextObject <= MaxObjects
              /\ Live2DModel' = [Live2DModel EXCEPT ![c] = nextObject]
              /\ createdFrom' = [createdFrom EXCEPT ![c] = FileSystem[ModelPath].data]
              /\ nextObject' = nextObject + 1
    /\ UNCHANGED <<RenderTarget, DynamicMaterial, pc, loadPath, ModelData>>

\* LoadLive2DModel, run to completion on the caller's thread
LoadLive2DModel(c, ModelPath) ==
    /\ pc[c] = "idle"
    /\ Returned(Call("LoadLive2DModel", c, ModelPath, 0, VoidResult))
    /\ IF ~FileSystem[ModelPath].exists
         THEN UNCHANGED <<Live2DModel, createdFrom, nextObject>>
         ELSE IF ~FileSystem[ModelPath].readable
           THEN UNCHANGED <<Live2DModel, createdFrom, nextObject>>
           ELSE /\ nextObject <= MaxObjects
                /\ Live2DModel' = [Live2DModel EXCEPT ![c] = nextObject]
                /\ createdFrom' = [createdFrom EXCEPT ![c] = FileSystem[ModelPath].data]
                /\ nextObject' = nextObject + 1
    /\ UNCHANGED <<RenderTarget, DynamicMaterial, pc, loadPath, ModelData>>

\* SetParameterValue: the branch on Live2DModel is empty
SetParameterValue(c, ParameterName, Value) ==
    /\ Returned(Call("SetParameterValue", c, ParameterName, Value, VoidResult))
    /\ UNCHANGED <<Live2DModel, RenderTarget, DynamicMaterial, createdFrom,
                   nextObject, pc, loadPath, ModelData>>

\* a getter without the check of Live2DModel
GetWithoutModelCheck(c, ParameterName) == PlaceholderValue

\* the float GetParameterValue returns
GetParameterValue(c, ParameterName) ==
    IF Live2DModel[c] # NULL THEN PlaceholderValue ELSE NoModelValue

\* a call of GetParameterValue (const: no member changes)
GetParameter(c, ParameterName) ==
    /\ Returned(Call("GetParameterValue", c, ParameterName, 0,
                     FloatResult(GetParameterValue(c, ParameterName))))
    /\ UNCHANGED <<Live2DModel, RenderTarget, DynamicMaterial, createdFrom,
                   nextObject, pc, loadPath, ModelData>>


\* -------------------------------------------- LoadLive2DModel, step by step
\* The same body run as a background task: the other operations interleave
\* between its statements.  pc is the statement the task is at.

\* if (!FPaths::FileExists(ModelPath)) return;
LoadCheckExists(c, ModelPath) ==
    /\ pc[c] = "idle"
    /\ IF ~FileSystem[ModelPath].exists
         THEN /\ Returned(Call("LoadLive2DModel", c, ModelPath, 0, VoidResult))
              /\ UNCHANGED <<pc, loadPath>>
         ELSE /\ pc' = [pc EXCEPT ![c] = "read"]
              /\ loadPath' = [loadPath EXCEPT ![c] = ModelPath]
              /\ Passed(c, "FileExists", ModelPath)
    /\ UNCHANGED <<Live2DModel, RenderTarget, DynamicMaterial, createdFrom,
                   nextObject, ModelData>>

\* if (!FFileHelper::LoadFileToArray(ModelData, *ModelPath)) return;
LoadReadFile(c) ==
    /\ pc[c] = "read"
    /\ IF ~FileSystem[loadPath[c]].readable
         THEN /\ Returned(Call("LoadLive2DModel", c, loadPath[c], 0, VoidResult))
              /\ pc' = [pc EXCEPT ![c] = "idle"]
              /\ loadPath' = [loadPath EXCEPT ![c] = ""]
              /\ UNCHANGED ModelData
         ELSE /\ ModelData' = [ModelData EXCEPT ![c] = FileSystem[loadPath[c]].data]
              /\ pc' = [pc EXCEPT ![c] = "create"]
              /\ Passed(c, "LoadFileToArray", loadPath[c])
              /\ UNCHANGED loadPath
    /\ UNCHANGED <<Live2DModel, RenderTarget, DynamicMaterial, createdFrom,
                   nextObject>>

\* Live2DModel = NewObject<UObject>(); and the return
LoadCreateModel(c) ==
    /\ pc[c] = "create"
    /\ nextObject <= MaxObjects
    /\ Live2DModel' = [Live2DModel EXCEPT ![c] = nextObject]
    /\ createdFrom' = [createdFrom EXCEPT ![c] = ModelData[c]]
    /\ nextObject' = nextObject + 1
    /\ Returned(Call("LoadLive2DModel", c, loadPath[c], 0, VoidResult))
    /\ pc' = [pc EXCEPT ![c] = "idle"]
    /\ loadPath' = [loadPath EXCEPT ![c] = ""]
    /\ ModelData' = [ModelData EXCEPT ![c] = EmptyData]
    /\ UNCHANGED <<RenderTarget, DynamicMaterial>>

Next ==
    \/ \E c \in Components : BeginPlay(c)
    \/ \E c \in Components, dt \in DeltaTimes : TickComponent(c, dt)
    \/ \E c \in Components, p \in Paths : LoadLive2DModel(c, p)
    \/ \E c \in Components, n \in ParameterNames, v \in ParameterValues :
          SetParameterValue(c, n, v)
    \/ \E c \in Components, n \in ParameterNames : GetParameter(c, n)

Spec == Init /\ [][Next]_vars

\* the host runs the loads in the background
NextAsync ==
    \/ \E c \in Components : BeginPlay(c)
    \/ \E c \in Components, dt \in DeltaTimes : TickComponent(c, dt)
    \/ \E c \in Components, n \in ParameterNames, v \in ParameterValues :
          SetParameterValue(c, n, v)
    \/ \E c \in Components, n \in ParameterNames : GetParameter(c, n)
    \/ \E c \in Components, p \in Paths : LoadCheckExists(c, p)
    \/ \E c \in Components : LoadReadFile(c)
    \/ \E c \in Components : LoadCreateModel(c)

SpecAsync == Init /\ [][NextAsync]_vars

\* ------------------------------------------- the notions the claims speak in
\* the controller state a component is in
ControllerState(c) ==
    IF pc[c] # "idle" THEN "Loading"
    ELSE IF Live2DModel[c] = NULL THEN "Unloaded" ELSE "Ready"

\* name is declared by the parameter definitions of data
Declared(data, name) ==
    \E i \in DOMAIN data.parameters : data.parameters[i].name = name

Definition(data, name) ==
    CHOOSE d \in {data.parameters[i] : i \in DOMAIN data.parameters} : d.name = name

Clamp(v, min, max) == IF v < min THEN min ELSE IF v > max THEN max ELSE v

\* a deformer reads an undeclared parameter or takes an undefined node as
\* input, or a drawable takes an undefined node as input
Dangling(data) ==
    \/ \E i \in DOMAIN data.deformers :
          \/ ~Declared(data, data.deformers[i].parameter)
          \/ ~(data.deformers[i].inputs \subseteq DOMAIN data.deformers)
    \/ \E k \in DOMAIN data.drawables : data.drawables[k] \notin DOMAIN data.deformers

\* the nodes reachable from the nodes of S along inputs, in at most n steps
RECURSIVE Upstream(_, _, _)
Upstream(data, S, n) ==
    IF n = 0 THEN S
    ELSE LET step == UNION {data.deformers[i].inputs \cap DOMAIN data.deformers : i \in S}
         IN  Upstream(data, S \cup step, n - 1)

Cyclic(data) ==
    \E i \in DOMAIN data.deformers :
        i \in Upstream(data, data.deformers[i].inputs \cap DOMAIN data.deformers,
                       Len(data.deformers))

WellFormed(data) == data.magic /\ ~Dangling(data) /\ ~Cyclic(data)

\* what a tick hands to the renderer
Output(c) == <<RenderTarget[c], DynamicMaterial[c]>>

\* the step is the return of a call of op on component c
Returns(op, c) == lastCall'.op = op /\ lastCall'.c = c

\* ------------------------------------------------------------------ claims

\* C1: on a loaded model, a GetParameterValue(p) that directly follows
\* SetParameterValue(p, v) for a declared p returns v clamped into the
\* declared [min, max].
C1_GetReturnsClampedSet ==
    [][\A c \in Components, n \in ParameterNames, v \in ParameterValues :
          ( /\ lastCall = Call("SetParameterValue", c, n, v, VoidResult)
            /\ Returns("GetParameterValue", c)
            /\ lastCall'.arg = n
            /\ ControllerState(c) = "Ready"
            /\ WellFormed(createdFrom[c])
            /\ Declared(createdFrom[c], n) )
          => lastCall'.ret =
                FloatResult(Clamp(v, Definition(createdFrom[c], n).min,
                                     Definition(createdFrom[c], n).max))]_vars

\* C2: on a loaded model, SetParameterValue and GetParameterValue of an
\* undeclared name end in an error, not a value, and change no member.
C2_UndeclaredNameFails ==
    [][\A c \in Components, n \in ParameterNames :
          ( /\ Returns("SetParameterValue", c) \/ Returns("GetParameterValue", c)
            /\ lastCall'.arg = n
            /\ ControllerState(c) = "Ready"
            /\ WellFormed(createdFrom[c])
            /\ ~Declared(createdFrom[c], n) )
          => /\ lastCall'.ret.kind = "error"
             /\ Members(c)' = Members(c)
             /\ createdFrom'[c] = createdFrom[c]]_vars

\* C3: a load started in Unloaded ends in Ready when the file can be read
\* and is well-formed, and in Unloaded, holding no model, otherwise.
C3_LoadAllOrNothing ==
    [][\A c \in Components, p \in Paths :
          ( /\ Returns("LoadLive2DModel", c)
            /\ lastCall'.arg = p
            /\ ControllerState(c) = "Unloaded" )
          => ControllerState(c)' =
                IF /\ FileSystem[p].exists
                   /\ FileSystem[p].readable
                   /\ WellFormed(FileSystem[p].data)
                THEN "Ready" ELSE "Unloaded"]_vars

\* C4: a tick of a component that is Unloaded or Loading changes neither
\* its controller state nor any of its members nor the data of its model,
\* and a tick of a Ready component leaves it Ready.
C4_TickNoOpUnlessReady ==
    [][\A c \in Components :
          Returns("TickComponent", c)
          => /\ ControllerState(c)' = ControllerState(c)
             /\ ControllerState(c) \in {"Unloaded", "Loading"}
                => /\ Members(c)' = Members(c)
                   /\ createdFrom'[c] = createdFrom[c]]_vars

C4_Witness ==
    /\ lastCall.op = "TickComponent"
    /\ ControllerState(lastCall.c) = "Loading"
    /\ Live2DModel[lastCall.c] = NULL

\* C6: whenever a component holds a model, the data it was created from has
\* no dangling reference and no deformer cycle.
C6_HeldModelValidated ==
    \A c \in Components :
        Live2DModel[c] # NULL
        => ~Dangling(createdFrom[c]) /\ ~Cyclic(createdFrom[c])

C8_TickSeesValidatedModel ==
    [][\A c \in Components :
          /\ Members(c)' # Members(c)
             => pc[c] = "create" /\ pc'[c] = "idle"
          /\ Returns("TickComponent", c)
             => Live2DModel'[c] = NULL \/ WellFormed(createdFrom'[c])]_vars

\* C9: LoadLive2DModel leaves Live2DModel as it is when the file is missing
\* or unreadable and makes it non-null when the file is read; no call makes
\* a non-null Live2DModel null.
C9_ModelNeverCleared ==
    [][\A c \in Components :
          /\ Live2DModel[c] # NULL => Live2DModel'[c] # NULL
          /\ \A p \in Paths :
                (Returns("LoadLive2DModel", c) /\ lastCall'.arg = p)
                => IF FileSystem[p].exists /\ FileSystem[p].readable
                     THEN Live2DModel'[c] # NULL
                     ELSE Live2DModel'[c] = Live2DModel[c]]_vars

C9_Witness ==
    /\ lastCall.op = "LoadLive2DModel"
    /\ ~(FileSystem[lastCall.arg].exists /\ FileSystem[lastCall.arg].readable)
    /\ Live2DModel[lastCall.c] # NULL

\* C10: GetParameterValue returns 0.5 when Live2DModel is non-null and 0.0
\* when it is null, whatever the name and the call before it;
\* SetParameterValue, GetParameterValue and TickComponent change no member.
C10_PlaceholderGetter ==
    [][\A c \in Components :
          /\ Returns("GetParameterValue", c)
             => lastCall'.ret =
                   FloatResult(IF Live2DModel[c] # NULL THEN 5 ELSE 0)
          /\ ( \/ Returns("GetParameterValue", c)
               \/ Returns("SetParameterValue", c)
               \/ Returns("TickComponent", c) )
             => Members(c)' = Members(c)]_vars

C10_Witness ==
    /\ lastCall.op = "GetParameterValue"
    /\ lastCall.arg = "angleX"
    /\ Live2DModel[lastCall.c] # NULL
    /\ WellFormed(createdFrom[lastCall.c])
    /\ lastCall.ret = FloatResult(5)

=============================================================================
